---- MODULE Spec2Model ----
(***************************************************************************)
(* PatternStack MCP server: the call-tool pipeline of src/src/server.ts    *)
(* (registry lookup, credential check, one timeout-guarded upstream POST,  *)
(* error classification, result formatting), the tool listing and the      *)
(* resource catalog of src/src/resources.ts, as a state machine.           *)
(*                                                                         *)
(* Strings that the code inspects or composes are sequences of tokens, so  *)
(* that String.includes and template concatenation are computed.           *)
(***************************************************************************)
EXTENDS Integers, Sequences, FiniteSets, TLC

\* Number of call-tool requests a run processes (they may overlap freely).
MaxCalls == 2

Calls == 1..MaxCalls

----------------------------------------------------------------------------
\* Tool registry (config/tools.ts)

\* Object.entries(TOOL_CONFIG) order.
ToolOrder ==
  << "dependency.explain", "dependency.health", "dependency.alternatives",
     "dependency.trends", "dependency.safe-upgrade", "stack.recommend",
     "stack.validate", "stack.defaults", "migration.plan",
     "architecture.evaluate", "signals.evaluate" >>

ToolNames == { ToolOrder[k] : k \in DOMAIN ToolOrder }

\* The description a tool is advertised with.
Description(n) ==
  CASE n = "dependency.explain" ->
         "Get comprehensive explanation of a package including health, risk, and recommendations"
    [] n = "dependency.health" ->
         "Quick health check for a package (deprecated, vulnerable, unmaintained)"
    [] n = "dependency.alternatives" ->
         "Find alternative packages with adoption stats and migration effort"
    [] n = "dependency.trends" ->
         "Get trend data for a package (rising, stable, declining)"
    [] n = "dependency.safe-upgrade" ->
         "Evaluate if upgrading a package is safe with breaking change analysis"
    [] n = "stack.recommend" ->
         "Get stack recommendations based on use cases and requirements"
    [] n = "stack.validate" ->
         "Validate a stack for conflicts, redundancies, and issues"
    [] n = "stack.defaults" ->
         "Get canonical/default packages for a framework"
    [] n = "migration.plan" ->
         "Generate a detailed migration plan with action graph"
    [] n = "architecture.evaluate" ->
         "Comprehensive architecture evaluation with quality grades"
    [] n = "signals.evaluate" ->
         "Get reward signal for add/remove/upgrade/replace actions"

TOOL_CONFIG ==
  [ n \in ToolNames |->
      CASE n = "dependency.explain"       -> [weight |-> 1, timeout |-> 15000, minTier |-> "free", description |-> Description(n)]
        [] n = "dependency.health"        -> [weight |-> 1, timeout |-> 5000, minTier |-> "free", description |-> Description(n)]
        [] n = "dependency.alternatives"  -> [weight |-> 1, timeout |-> 10000, minTier |-> "free", description |-> Description(n)]
        [] n = "dependency.trends"        -> [weight |-> 1, timeout |-> 10000, minTier |-> "free", description |-> Description(n)]
        [] n = "dependency.safe-upgrade"  -> [weight |-> 2, timeout |-> 15000, minTier |-> "free", description |-> Description(n)]
        [] n = "stack.recommend"          -> [weight |-> 2, timeout |-> 20000, minTier |-> "free", description |-> Description(n)]
        [] n = "stack.validate"           -> [weight |-> 1, timeout |-> 10000, minTier |-> "free", description |-> Description(n)]
        [] n = "stack.defaults"           -> [weight |-> 1, timeout |-> 5000, minTier |-> "free", description |-> Description(n)]
        [] n = "migration.plan"           -> [weight |-> 3, timeout |-> 30000, minTier |-> "free", description |-> Description(n)]
        [] n = "architecture.evaluate"    -> [weight |-> 5, timeout |-> 45000, minTier |-> "free", description |-> Description(n)]
        [] n = "signals.evaluate"         -> [weight |-> 1, timeout |-> 10000, minTier |-> "free", description |-> Description(n)] ]

HIDDEN_TOOLS == { "migration.plan" }

\* Object.keys(TOOL_CONFIG).includes(name)
IsKnownTool(name) == \E k \in DOMAIN ToolOrder : ToolOrder[k] = name

\* The closed enumeration of the `ecosystem` property (config/schemas.ts).
ECOSYSTEM_ENUM ==
  { "npm", "pypi", "go", "crates", "rubygems", "packagist", "hex", "maven",
    "nuget", "pub", "swift" }

\* Mutant of SchemaOrder: the schema of 'signals.evaluate' is missing.
SchemaOrderWithoutSignals ==
  << "dependency.explain", "dependency.health", "dependency.alternatives",
     "dependency.trends", "dependency.safe-upgrade", "stack.recommend",
     "stack.validate", "stack.defaults", "migration.plan",
     "architecture.evaluate" >>

\* The keys of the INPUT_SCHEMAS object literal, in the order written.
SchemaOrder ==
  << "dependency.explain", "dependency.health", "dependency.alternatives",
     "dependency.trends", "dependency.safe-upgrade", "stack.recommend",
     "stack.validate", "stack.defaults", "migration.plan",
     "architecture.evaluate", "signals.evaluate" >>

SchemaNames == { SchemaOrder[k] : k \in DOMAIN SchemaOrder }

\* Names with an `ecosystem` property in their input schema.
EcosystemTools ==
  SchemaNames \ { "stack.recommend", "stack.defaults" }

\* The `required` list of each input schema.
RequiredFields(n) ==
  CASE n = "dependency.safe-upgrade" -> { "package", "currentVersion" }
    [] n = "stack.recommend"         -> { "useCases" }
    [] n = "stack.validate"          -> { "packages" }
    [] n = "stack.defaults"          -> { "framework" }
    [] n = "migration.plan"          -> { "from", "to" }
    [] n = "architecture.evaluate"   -> { "packages" }
    [] n = "signals.evaluate"        -> { "action", "package", "currentStack" }
    [] OTHER                         -> { "package" }

\* The input schemas, as far as they constrain an arguments object: the
\* required fields and the enumeration of `ecosystem`, where the schema has
\* that property.
INPUT_SCHEMAS ==
  [ n \in SchemaNames |->
      [type |-> "object",
       required |-> RequiredFields(n),
       ecosystem |-> IF n \in EcosystemTools THEN ECOSYSTEM_ENUM ELSE { }] ]

\* What INPUT_SCHEMAS[name] evaluates to for a name that is not a key.
UndefinedSchema == [type |-> "undefined", required |-> { }, ecosystem |-> { }]

\* INPUT_SCHEMAS[name]: a property read, undefined for a missing key.
SchemaOf(name) ==
  IF name \in DOMAIN INPUT_SCHEMAS THEN INPUT_SCHEMAS[name] ELSE UndefinedSchema

----------------------------------------------------------------------------
\* Process environment

\* A variable that is not in process.env reads as undefined.
Unset == "<undefined>"

\* JavaScript truthiness of an environment value (undefined and '' are falsy).
Truthy(v) == v # Unset /\ v # ""

DefaultApiUrl == "https://patternstack.ai"

\* process.env.PATTERNSTACK_API_URL || 'https://patternstack.ai'
ApiUrlOf(e) == IF Truthy(e.url) THEN e.url ELSE DefaultApiUrl

----------------------------------------------------------------------------
\* Messages

MsgNoKey ==
  << "PATTERNSTACK_API_KEY not set. Get your key at https://patternstack.ai/dashboard/keys" >>

MsgWorkspace ==
  << "Workspace-scoped API key requires PATTERNSTACK_CLERK_USER_ID. Re-copy your MCP config from the dashboard in workspace mode." >>

MsgToolFailed == << "Tool execution failed" >>

\* Mutant of UnknownToolMessage: the requested name is left out.
UnknownToolMessageWithoutName(name) == << "Unknown tool" >>

\* `Unknown tool: ${name}`
UnknownToolMessage(name) == << "Unknown tool:", name >>

\* `API error: ${response.status}`
ApiErrorMessage(status) == << "API error:", ToString(status) >>

\* Messages of the errors the runtime raises.
MsgFetchFailed == << "fetch failed" >>
MsgAborted     == << "This operation was aborted" >>
MsgBadJson     == << "Unexpected token in JSON" >>
MsgNullRead(prop) == << "Cannot read properties of null", prop >>
MsgUndefRead(prop) == << "Cannot read properties of undefined", prop >>

\* message.includes(word), on token sequences; '' includes nothing but ''.
Includes(message, word) == \E k \in DOMAIN message : message[k] = word

\* JavaScript truthiness of a string: '' is falsy.
NonEmpty(message) == message # << >>

----------------------------------------------------------------------------
\* Result formatter (formatter.ts)

\* Values the upstream can put in the payload's `result` field.  "undefined"
\* is a payload without the field; the two full objects carry every field
\* the tool templates read, one of them with an object-valued _agi block.
RNull      == "null"
RUndefined == "undefined"
RScalar    == "42"
REmptyObj  == "{}"
RFull      == "{full}"
RFullAgi   == "{full,_agi}"

Results == { RNull, RUndefined, RScalar, REmptyObj, RFull, RFullAgi }

\* Further values formatResult can be applied to: an array, an object whose
\* only property is an empty _agi object, and full objects whose _agi is
\* null or a string.
RArray       == "[1,2]"
RAgiOnly     == "{_agi:{}}"
RFullAgiNull == "{full,_agi:null}"
RFullAgiText == "{full,_agi:'upgrade'}"

FormatInputs == Results \cup { RArray, RAgiOnly, RFullAgiNull, RFullAgiText }

IsNullish(r) == r \in { RNull, RUndefined }
HasFields(r) == r \in { RFull, RFullAgi, RFullAgiNull, RFullAgiText }

\* The _agi block of the full object: its entries in key order, each with
\* the kind of its value and the value (the items of an array, the
\* properties of an object, the text of a scalar).
AgiBlock ==
  << [key |-> "safe",    kind |-> "scalar", value |-> << "false" >>],
     [key |-> "reasons", kind |-> "array",  value |-> << "deprecated", "cve" >>],
     [key |-> "context", kind |-> "object", value |-> << "depth", "1" >>],
     [key |-> "tags",    kind |-> "array",  value |-> << >>],
     [key |-> "next",    kind |-> "null",   value |-> << "null" >>] >>

\* typeof data._agi, with null and undefined apart.
AgiKind(r) ==
  CASE r \in { RFullAgi, RAgiOnly } -> "object"
    [] r = RFullAgiNull             -> "null"
    [] r = RFullAgiText             -> "string"
    [] OTHER                        -> "undefined"

\* Object.entries(data._agi)
AgiOf(r) == IF r = RFullAgi THEN AgiBlock ELSE << >>

\* data._agi && typeof data._agi === 'object'
HasAgi(r) == AgiKind(r) = "object"

\* Tools with a case of their own in formatResult's switch.
BespokeTools ==
  { "dependency.explain", "dependency.health", "stack.recommend",
    "stack.validate", "migration.plan", "architecture.evaluate",
    "signals.evaluate" }

\* The first property of `data` each template reads.
FirstField(tool) ==
  CASE tool = "dependency.explain"    -> "(reading 'package')"
    [] tool = "dependency.health"     -> "(reading 'status')"
    [] tool = "stack.recommend"       -> "(reading 'stack')"
    [] tool = "stack.validate"        -> "(reading 'valid')"
    [] tool = "migration.plan"        -> "(reading 'migration')"
    [] tool = "architecture.evaluate" -> "(reading 'quality')"
    [] tool = "signals.evaluate"      -> "(reading 'reward')"
    [] OTHER                          -> "(reading '_agi')"

\* The first property a template reads from a field of `data` without
\* guarding against the field being absent; "" when it reads none.
FirstDeref(tool) ==
  CASE tool = "dependency.explain"    -> "(reading 'name')"
    [] tool = "stack.recommend"       -> "(reading 'framework')"
    [] tool = "migration.plan"        -> "(reading 'from')"
    [] tool = "architecture.evaluate" -> "(reading 'grade')"
    [] tool = "signals.evaluate"      -> "(reading 'toFixed')"
    [] OTHER                          -> ""

\* The heading each template starts with.
Heading(tool) ==
  CASE tool = "dependency.explain"    -> << "#", "name@version" >>
    [] tool = "dependency.health"     -> << "# Health Check" >>
    [] tool = "stack.recommend"       -> << "# Recommended Stack:" >>
    [] tool = "stack.validate"        -> << "# Stack Validation" >>
    [] tool = "migration.plan"        -> << "# Migration Plan" >>
    [] tool = "architecture.evaluate" -> << "# Architecture Evaluation" >>
    [] tool = "signals.evaluate"      -> << "# Signal Evaluation" >>
    [] OTHER                          -> << "#", tool, "Result", "json:" >>

\* value.join(', ')
RECURSIVE Join(_)
Join(items) ==
  IF items = << >> THEN << >>
  ELSE IF Len(items) = 1 THEN items
  ELSE << Head(items), ", " >> \o Join(Tail(items))

\* JSON.stringify(value) of an object with one property.
JsonStringify(props) == << "{", props[1], ":", props[2], "}" >>

\* The line formatAgi appends for one entry of _agi.
AgiLine(e) ==
  << "- **", e.key, "**:" >>
    \o (CASE e.kind = "array"  -> Join(e.value)
          [] e.kind = "object" -> JsonStringify(e.value)
          [] OTHER             -> e.value)

\* `text` after the loop of formatAgi has run over the first k entries.
RECURSIVE AgiLinesOver(_, _)
AgiLinesOver(agi, k) ==
  IF k = 0 THEN << "---", "## AGI Guidance" >>
  ELSE AgiLinesOver(agi, k - 1) \o AgiLine(agi[k])

\* Mutant of formatAgi: the section lists the first key only.
formatAgiFirstKeyOnly(agi) ==
  AgiLinesOver(agi, IF Len(agi) > 0 THEN 1 ELSE 0)

\* formatAgi: the guidance section of an _agi object.
formatAgi(agi) == AgiLinesOver(agi, Len(agi))

\* The tool-specific body formatResult builds from a value its template can
\* read: the heading and the fields of the value.
ToolBody(tool, r) == Heading(tool) \o << r >>

\* formatResult(tool, result): [threw, text]; text is the rendering, or the
\* message of the TypeError a property read of null/undefined raises.
formatResult(tool, r) ==
  IF IsNullish(r) /\ tool \in BespokeTools
    THEN [threw |-> TRUE,
          text  |-> IF r = RNull THEN MsgNullRead(FirstField(tool))
                                 ELSE MsgUndefRead(FirstField(tool))]
  ELSE IF IsNullish(r)
    THEN [threw |-> TRUE,
          text  |-> IF r = RNull THEN MsgNullRead("(reading '_agi')")
                                 ELSE MsgUndefRead("(reading '_agi')")]
  ELSE IF tool \in BespokeTools /\ ~HasFields(r) /\ FirstDeref(tool) # ""
    THEN [threw |-> TRUE, text |-> MsgUndefRead(FirstDeref(tool))]
  ELSE [threw |-> FALSE,
        text  |-> ToolBody(tool, r)
                    \o (IF HasAgi(r) THEN formatAgi(AgiOf(r)) ELSE << >>)]

\* formatResult has not been applied outside a call.
NoRendering ==
  [applied |-> FALSE, tool |-> "", result |-> RUndefined,
   threw |-> FALSE, text |-> << >>]

\* formatResult(tool, result) applied: its arguments and how it ended.
Rendered(tool, r) ==
  [applied |-> TRUE, tool |-> tool, result |-> r,
   threw |-> formatResult(tool, r).threw, text |-> formatResult(tool, r).text]

----------------------------------------------------------------------------
\* What the upstream can answer

\* HTTP status line: response.status, response.statusText ('' over HTTP/2).
HttpResponses ==
  { [status |-> 200, statusText |-> << "OK" >>],
    [status |-> 400, statusText |-> << "Bad Request" >>],
    [status |-> 400, statusText |-> << >>],
    [status |-> 500, statusText |-> << "Internal Server Error" >>] }

\* response.ok
Ok(resp) == resp.status >= 200 /\ resp.status <= 299

\* error.message values of an upstream error body.
UpstreamMessages ==
  { << >>,
    << "Rate limit exceeded" >>,
    << "Missing", "x-clerk-user-id", "header" >> }

\* Response bodies: text that is not JSON, JSON null, or a JSON object with
\* an optional `success` flag, an optional `error` object with an optional
\* `message`, and an optional `result`.
Body(kind, success, error, message, result) ==
  [kind |-> kind, success |-> success, error |-> error,
   message |-> message, result |-> result]

Bodies ==
  { Body("unparseable", "absent", "absent", << >>, RUndefined),
    Body("null", "absent", "absent", << >>, RUndefined) }
  \cup { Body("object", "true", "absent", << >>, r) : r \in Results }
  \cup { Body("object", s, e, << >>, RUndefined) :
           s \in { "false", "absent" }, e \in { "absent", "nomessage" } }
  \cup { Body("object", s, "message", m, RUndefined) :
           s \in { "false", "absent" }, m \in UpstreamMessages }

\* error.error?.message / result.error?.message: [defined, value].
EmbeddedMessage(body) ==
  IF body.kind = "object" /\ body.error = "message"
    THEN [defined |-> TRUE, value |-> body.message]
    ELSE [defined |-> FALSE, value |-> << >>]

----------------------------------------------------------------------------
\* callTool's classification of the upstream answer (server.ts)

\* Mutant of HasCredential: only an undefined key counts as missing, so an
\* empty key is sent upstream.
HasCredentialUnlessUndefined(apiKey) == apiKey # Unset

\* if (!apiKey)
HasCredential(apiKey) == Truthy(apiKey)

\* const error = await response.json().catch(() => ({error: {message:
\* response.statusText}})); const message = error.error?.message
\* [threw, defined, value]: reading `.error` of a JSON null body throws.
ParsedErrorMessage(resp, body) ==
  CASE body.kind = "unparseable" ->
         [threw |-> FALSE, defined |-> TRUE, value |-> resp.statusText]
    [] body.kind = "null" ->
         [threw |-> TRUE, defined |-> FALSE, value |-> MsgNullRead("(reading 'error')")]
    [] OTHER ->
         [threw |-> FALSE, defined |-> EmbeddedMessage(body).defined,
          value |-> EmbeddedMessage(body).value]

\* Mutant of NeedsWorkspaceRewrite: the status is not checked.
NeedsWorkspaceRewriteAnyStatus(status, message) ==
  message.defined /\ Includes(message.value, "x-clerk-user-id")

\* response.status === 400 && typeof message === 'string' &&
\* message.includes('x-clerk-user-id')
NeedsWorkspaceRewrite(status, message) ==
  status = 400 /\ message.defined /\ Includes(message.value, "x-clerk-user-id")

\* Mutant of MessageOrApiError: `??` instead of `||`, so an empty message
\* is kept.
MessageOrApiErrorNullish(status, message) ==
  IF message.defined THEN message.value ELSE ApiErrorMessage(status)

\* message || `API error: ${response.status}`
MessageOrApiError(status, message) ==
  IF message.defined /\ NonEmpty(message.value)
    THEN message.value
    ELSE ApiErrorMessage(status)

\* The message of the Error callTool throws for a response that is not ok.
HttpErrorMessage(resp, body) ==
  LET message == ParsedErrorMessage(resp, body) IN
    IF message.threw THEN message.value
    ELSE IF NeedsWorkspaceRewrite(resp.status, message) THEN MsgWorkspace
    ELSE MessageOrApiError(resp.status, message)

\* Mutant of PayloadErrorMessage: the embedded message is dropped.
PayloadErrorMessageGeneric(body) == MsgToolFailed

\* result.error?.message || 'Tool execution failed'
PayloadErrorMessage(body) ==
  IF EmbeddedMessage(body).defined /\ NonEmpty(EmbeddedMessage(body).value)
    THEN EmbeddedMessage(body).value
    ELSE MsgToolFailed

\* How callTool ends: it returns a value or throws an Error with a message.
Returned(value) == [kind |-> "returned", msg |-> << >>, value |-> value]
Threw(msg)      == [kind |-> "threw", msg |-> msg, value |-> RUndefined]
NoRet           == [kind |-> "none", msg |-> << >>, value |-> RUndefined]

\* Mutant of PayloadOutcome: the whole payload is returned instead of its
\* `result` field.
PayloadOutcomeWholePayload(body) ==
  CASE body.kind = "unparseable" -> Threw(MsgBadJson)
    [] body.kind = "null"        -> Threw(MsgNullRead("(reading 'success')"))
    [] body.success # "true"     -> Threw(MsgToolFailed)
    [] OTHER                     -> Returned(REmptyObj)

\* Mutant of PayloadOutcome: only an explicit success:false is a failure, a
\* payload without the flag is returned.
PayloadOutcomeOnlyExplicitFalse(body) ==
  CASE body.kind = "unparseable" -> Threw(MsgBadJson)
    [] body.kind = "null"        -> Threw(MsgNullRead("(reading 'success')"))
    [] body.success = "false"    -> Threw(PayloadErrorMessage(body))
    [] OTHER                     -> Returned(body.result)

\* const result = await response.json(); if (!result.success) throw ...;
\* return result.result
PayloadOutcome(body) ==
  CASE body.kind = "unparseable" -> Threw(MsgBadJson)
    [] body.kind = "null"        -> Threw(MsgNullRead("(reading 'success')"))
    [] body.success # "true"     -> Threw(PayloadErrorMessage(body))
    [] OTHER                     -> Returned(body.result)

\* What callTool does with a complete upstream answer.
ClassifyResponse(resp, body) ==
  IF Ok(resp) THEN PayloadOutcome(body) ELSE Threw(HttpErrorMessage(resp, body))

----------------------------------------------------------------------------
\* The call-tool handler's replies (server.ts)

NoOut == [kind |-> "none", isError |-> FALSE, text |-> << >>]

\* return {content: [{type: 'text', text: formatResult(name, result)}]}
SuccessResponse(text) == [kind |-> "response", isError |-> FALSE, text |-> text]

\* Mutant of ErrorResponse: the isError flag is not set.
ErrorResponseUnflagged(msg) ==
  [kind |-> "response", isError |-> FALSE, text |-> << "Error:" >> \o msg]

\* catch (error) {return {content: [{type: 'text', text: `Error: ${err.message}`}],
\* isError: true}}
ErrorResponse(msg) ==
  [kind |-> "response", isError |-> TRUE, text |-> << "Error:" >> \o msg]

\* An Error that leaves the handler (a protocol-level error).
ThrownOut(msg) == [kind |-> "thrown", isError |-> FALSE, text |-> msg]

NoFmt == [called |-> FALSE, tool |-> "", result |-> RUndefined]

\* The handler's try block after callTool has ended: format or catch.
HandlerReply(name, ret) ==
  IF ret.kind = "threw" THEN ErrorResponse(ret.msg)
  ELSE IF formatResult(name, ret.value).threw
    THEN ErrorResponse(formatResult(name, ret.value).text)
  ELSE SuccessResponse(formatResult(name, ret.value).text)

\* The arguments formatResult is called with.
FormatCall(name, ret) ==
  IF ret.kind = "returned"
    THEN [called |-> TRUE, tool |-> name, result |-> ret.value]
    ELSE NoFmt

----------------------------------------------------------------------------
\* Tool listing (server.ts) and resource catalog (resources.ts)
\*
\* A document is a sequence of lines, a line a sequence of tokens.

\* The module constants of resources.ts, evaluated once when the module is
\* loaded from the environment `e` of that moment:
\*   const API_KEY = process.env.PATTERNSTACK_API_KEY;
\*   const API_URL = process.env.PATTERNSTACK_API_URL || 'https://patternstack.ai';
ModuleConstants(e) == [API_KEY |-> e.key, API_URL |-> ApiUrlOf(e)]

\* dotenv.config(): a variable of the .env file is added to process.env
\* unless the process environment already defines it.
DotenvConfig(e, file) ==
  [key   |-> IF e.key = Unset THEN file.key ELSE e.key,
   url   |-> IF e.url = Unset THEN file.url ELSE e.url,
   clerk |-> IF e.clerk = Unset THEN file.clerk ELSE e.clerk]

\* The tier matrix of the overview document: tool, Free, Workspace, Premium.
TierMatrix ==
  << << "dependency.health", "Preview", "Yes", "Yes" >>,
     << "stack.defaults", "-", "Yes", "Yes" >>,
     << "dependency.explain", "Preview", "Yes", "Yes" >>,
     << "dependency.alternatives", "-", "Yes", "Yes" >>,
     << "dependency.trends", "Preview", "Yes", "Yes" >>,
     << "stack.recommend", "-", "Yes", "Yes" >>,
     << "stack.validate", "Preview", "Yes", "Yes" >>,
     << "migration.plan", "-", "-", "Yes" >>,
     << "dependency.safe-upgrade", "-", "-", "Yes" >>,
     << "architecture.evaluate", "-", "-", "Yes" >>,
     << "signals.evaluate", "-", "-", "Yes" >> >>

getOverviewDoc ==
  << << "# PatternStack MCP" >>,
     << "## Agent-Optimized Semantic Tool Layer" >>,
     << "### Tiers" >>,
     << "Tool", "Free", "Workspace", "Premium" >> >>
  \o TierMatrix
  \o << << "Get your API key at:", "https://patternstack.ai/dashboard/keys" >> >>

\* `${config.timeout / 1000}`: every timeout of the registry is a whole
\* number of seconds, which prints without a fraction.
SecondsText(ms) == ToString(ms \div 1000)

\* The lines one iteration of getToolsDoc's loop appends.
ToolSection(name, config) ==
  << << "##", name >>,
     << config.description >>,
     << "- **Complexity Weight**:", ToString(config.weight) >>,
     << "- **Timeout**:", SecondsText(config.timeout), "s" >>,
     << "- **Minimum Tier**:", config.minTier >>,
     << "---" >> >>

\* `doc` after the loop has run over the first k entries of `order`.
RECURSIVE ToolsDocOver(_, _)
ToolsDocOver(order, k) ==
  IF k = 0
    THEN << << "# MCP Tool Reference" >> >>
    ELSE ToolsDocOver(order, k - 1)
           \o ToolSection(order[k], TOOL_CONFIG[order[k]])

\* Mutant of getToolsDoc: the reference leaves the hidden tools out.
getToolsDocWithoutHidden ==
  LET listed == SelectSeq(ToolOrder, LAMBDA n : n \notin HIDDEN_TOOLS)
  IN  ToolsDocOver(listed, Len(listed))

\* for (const [name, config] of Object.entries(TOOL_CONFIG)) doc += ...
getToolsDoc == ToolsDocOver(ToolOrder, Len(ToolOrder))

\* Mutant of getConfigDoc: the document prints the key itself.
getConfigDocWithKey(c) ==
  << << "# PatternStack Configuration" >>,
     << "API Key:", c.API_KEY >>,
     << "API URL:", c.API_URL >> >>

\* API Key: ${API_KEY ? 'Configured' : 'Not set'} / API URL: ${API_URL},
\* over the module constants `c`.
getConfigDoc(c) ==
  << << "# PatternStack Configuration" >>,
     << "API Key:", IF Truthy(c.API_KEY) THEN "Configured" ELSE "Not set" >>,
     << "API URL:", c.API_URL >>,
     << "## Setup" >>,
     << "## Environment Variables" >> >>

UriOverview == "patternstack://overview"
UriTools    == "patternstack://tools"
UriConfig   == "patternstack://config"

RESOURCES ==
  << [uri |-> UriOverview, name |-> "MCP Overview",
      description |-> "PatternStack MCP architecture and tool reference",
      mimeType |-> "text/markdown"],
     [uri |-> UriTools, name |-> "Tool Reference",
      description |-> "Detailed reference for all MCP tools",
      mimeType |-> "text/markdown"],
     [uri |-> UriConfig, name |-> "Configuration",
      description |-> "Current configuration and API key status",
      mimeType |-> "text/plain"] >>

CatalogUris == { RESOURCES[k].uri : k \in DOMAIN RESOURCES }

\* `Unknown resource: ${uri}`
UnknownResourceMessage(uri) == << "Unknown resource:", uri >>

\* Mutant of getResource: an unknown URI falls back to the overview.
getResourceWithFallback(uri, c) ==
  CASE uri = UriTools  -> [threw |-> FALSE, text |-> getToolsDoc, error |-> << >>]
    [] uri = UriConfig -> [threw |-> FALSE, text |-> getConfigDoc(c), error |-> << >>]
    [] OTHER           -> [threw |-> FALSE, text |-> getOverviewDoc, error |-> << >>]

\* switch (uri) {...; default: throw new Error(`Unknown resource: ${uri}`)}
getResource(uri, c) ==
  CASE uri = UriOverview ->
         [threw |-> FALSE, text |-> getOverviewDoc, error |-> << >>]
    [] uri = UriTools ->
         [threw |-> FALSE, text |-> getToolsDoc, error |-> << >>]
    [] uri = UriConfig ->
         [threw |-> FALSE, text |-> getConfigDoc(c), error |-> << >>]
    [] OTHER ->
         [threw |-> TRUE, text |-> << >>, error |-> UnknownResourceMessage(uri)]

\* No list or read request has been answered yet.
NoReply ==
  [request |-> "none", uri |-> "", threw |-> FALSE, error |-> << >>,
   tools |-> << >>, resources |-> << >>, contents |-> << >>]

\* Mutant of ListedTools: the registry is advertised unfiltered.
ListedToolsUnfiltered ==
  [k \in DOMAIN ToolOrder |->
     [name |-> ToolOrder[k],
      description |-> TOOL_CONFIG[ToolOrder[k]].description,
      inputSchema |-> SchemaOf(ToolOrder[k])]]

\* Object.entries(TOOL_CONFIG).filter(([name]) => !HIDDEN_TOOLS.includes(name))
\*   .map(([name, config]) => ({name, description, inputSchema}))
ListedTools ==
  LET listed == SelectSeq(ToolOrder, LAMBDA n : n \notin HIDDEN_TOOLS)
  IN  [k \in DOMAIN listed |->
         [name |-> listed[k],
          description |-> TOOL_CONFIG[listed[k]].description,
          inputSchema |-> SchemaOf(listed[k])]]

\* The list-tools handler's reply.
ListToolsReply == [NoReply EXCEPT !.request = "tools/list", !.tools = ListedTools]

\* The list-resources handler's reply: {resources: RESOURCES}.
ListResourcesReply ==
  [NoReply EXCEPT !.request = "resources/list", !.resources = RESOURCES]

\* The read-resource handler: getResource(uri) inside no try block, so that
\* its throw leaves the handler; otherwise one content entry.
ReadResourceReply(uri, c) ==
  LET content == getResource(uri, c)
  IN  IF content.threw
        THEN [NoReply EXCEPT !.request = "resources/read", !.uri = uri,
                             !.threw = TRUE, !.error = content.error]
        ELSE [NoReply EXCEPT
                !.request = "resources/read", !.uri = uri,
                !.contents = << [uri |-> uri, mimeType |-> "text/markdown",
                                 text |-> content.text] >>]

----------------------------------------------------------------------------
\* State

VARIABLES
  env,     \* process.env: PATTERNSTACK_API_KEY, _API_URL, _CLERK_USER_ID
  inv,     \* the call-tool requests: inv[i] is the state of request i
  consts,  \* the module constants API_KEY and API_URL of resources.ts
  reply,   \* the latest reply to a list-tools, list-resources or
           \* read-resource request
  files,   \* the key files on disk when the process starts: the project's
           \* .patternstack and .env, and ~/.patternstackrc
  rendering  \* the latest application of formatResult outside a call

vars == << env, inv, consts, reply, files, rendering >>

\* An invocation that has issued no upstream request.
NoReq ==
  [method |-> "", url |-> << >>, contentType |-> "", auth |-> << >>,
   clerk |-> Unset, tool |-> "", input |-> ""]

NoResp == [status |-> 0, statusText |-> << >>]

NoBody == Body("none", "absent", "absent", << >>, RUndefined)

\* `arguments` is optional in a call-tool request.
ArgsAbsent == "<undefined>"

\* args || {}
InputOf(args) == IF args = ArgsAbsent THEN "{}" ELSE args

\* Mutant of UpstreamRequest: the identity header is sent whenever the
\* variable is defined, the empty string included.
UpstreamRequestClerkIfDefined(e, tool, input) ==
  [method |-> "POST",
   url |-> << ApiUrlOf(e), "/api/mcp/tools/call" >>,
   contentType |-> "application/json",
   auth |-> << "Bearer", e.key >>,
   clerk |-> e.clerk,
   tool |-> tool,
   input |-> input]

\* Mutant of UpstreamRequest: the credential, the base URL and the identity
\* value are those of the process start.
UpstreamRequestFromStartup(e, tool, input) ==
  [method |-> "POST",
   url |-> << consts.API_URL, "/api/mcp/tools/call" >>,
   contentType |-> "application/json",
   auth |-> << "Bearer", consts.API_KEY >>,
   clerk |-> Unset,
   tool |-> tool,
   input |-> input]

\* fetch(`${apiUrl}/api/mcp/tools/call`, {method: 'POST', headers, body:
\* JSON.stringify({tool, input}), signal})
UpstreamRequest(e, tool, input) ==
  [method |-> "POST",
   url |-> << ApiUrlOf(e), "/api/mcp/tools/call" >>,
   contentType |-> "application/json",
   auth |-> << "Bearer", e.key >>,
   clerk |-> IF Truthy(e.clerk) THEN e.clerk ELSE Unset,
   tool |-> tool,
   input |-> input]

\* A request that has not arrived yet.
\*   pc      where the handler is: "idle", "fetch" (awaiting fetch), "body"
\*           (awaiting response.json()), "done"
\*   name, args  request.params.name and request.params.arguments
\*   timer   the setTimeout of this invocation: "none", "pending", "fired",
\*           "cleared";  delay is its delay in ms;  elapsed says that the
\*           delay has passed since it was set;  aborted is
\*           controller.signal.aborted
\*   fetches POSTs this invocation has issued
\*   resp, body  the upstream answer as far as it has been delivered
\*   ret     how callTool ended;  fmt  the call of formatResult;  out  the reply
IdleCall ==
  [pc |-> "idle", name |-> "", args |-> ArgsAbsent,
   timer |-> "none", delay |-> 0,
   elapsed |-> FALSE, aborted |-> FALSE,
   fetches |-> 0, req |-> NoReq, resp |-> NoResp, body |-> NoBody,
   ret |-> NoRet, fmt |-> NoFmt, out |-> NoOut]

\* clearTimeout(timeoutId): a pending timer is cancelled, otherwise a no-op.
ClearTimeout(timer) == IF timer = "pending" THEN "cleared" ELSE timer

\* clearTimeout(timeoutId) after fetch has resolved
ClearTimeoutOnResponse(timer) == ClearTimeout(timer)

\* Mutant of ClearTimeoutOnCatch: the catch block forgets the timer.
KeepTimerOnCatch(timer) == timer

\* catch (error) {clearTimeout(timeoutId); throw error}
ClearTimeoutOnCatch(timer) == ClearTimeout(timer)

\* callTool has ended with `ret`: the handler formats or catches, and replies.
Finish(c, ret) ==
  [c EXCEPT !.pc = "done",
            !.ret = ret,
            !.fmt = FormatCall(c.name, ret),
            !.out = HandlerReply(c.name, ret)]

\* Mutant of CatchAndRethrow: the request is issued once more before the
\* failure is passed on.
RetryThenRethrow(c, msg) ==
  IF c.fetches < 2
    THEN [c EXCEPT !.pc = "fetch", !.fetches = c.fetches + 1, !.resp = NoResp]
    ELSE Finish([c EXCEPT !.timer = ClearTimeout(c.timer)], Threw(msg))

\* Mutant of CatchAndRethrow: the rethrown error names the request's
\* Authorization header.
CatchAndRethrowWithHeaders(c, msg) ==
  Finish([c EXCEPT !.timer = ClearTimeout(c.timer)], Threw(msg \o c.req.auth))

\* callTool's catch block: clear the timer, rethrow to the handler.
CatchAndRethrow(c, msg) ==
  Finish([c EXCEPT !.timer = ClearTimeoutOnCatch(c.timer)], Threw(msg))

\* The handler up to its first suspension: registry check, then callTool up
\* to `await fetch(...)`.
StartCall(c, e, name, args) ==
  IF ~IsKnownTool(name)
    THEN [c EXCEPT !.pc = "done", !.name = name, !.args = args,
                   !.out = ThrownOut(UnknownToolMessage(name))]
  ELSE IF ~HasCredential(e.key)
    THEN Finish([c EXCEPT !.name = name, !.args = args], Threw(MsgNoKey))
  ELSE [c EXCEPT !.pc = "fetch", !.name = name, !.args = args,
                 !.timer = "pending",
                 !.delay = TOOL_CONFIG[name].timeout,
                 !.fetches = c.fetches + 1,
                 !.req = UpstreamRequest(e, name, InputOf(args))]

\* fetch resolved with the status line: clearTimeout, then await the body.
OnResponse(c, resp) ==
  [c EXCEPT !.pc = "body", !.resp = resp,
            !.timer = ClearTimeoutOnResponse(c.timer)]

\* response.json() settled: classify; a throw passes through the catch block.
OnBody(c, body) ==
  LET ret  == ClassifyResponse(c.resp, body)
      seen == [c EXCEPT !.body = body]
  IN  IF ret.kind = "threw" THEN CatchAndRethrow(seen, ret.msg)
      ELSE Finish(seen, ret)

\* `delay` ms have passed since setTimeout: a timer that is still pending
\* runs its callback, controller.abort(); a cleared timer does nothing.
OnTimeout(c) ==
  IF c.timer = "pending"
    THEN [c EXCEPT !.elapsed = TRUE, !.timer = "fired", !.aborted = TRUE]
    ELSE [c EXCEPT !.elapsed = TRUE]

\* The signal aborted a pending fetch or body read.  A body read of a
\* response that is not ok swallows the rejection (.catch) and goes on with
\* the status text.
OnAbort(c) ==
  IF c.pc = "body" /\ ~Ok(c.resp)
    THEN OnBody(c, Body("unparseable", "absent", "absent", << >>, RUndefined))
    ELSE CatchAndRethrow(c, MsgAborted)

----------------------------------------------------------------------------
\* Actions

\* A call-tool request arrives and runs to its first await.
HandleCall(i, name, args) ==
  /\ inv[i].pc = "idle"
  /\ inv' = [inv EXCEPT ![i] = StartCall(inv[i], env, name, args)]
  /\ UNCHANGED << env, consts, reply, files, rendering >>

\* Mutant of TimeoutElapses: one abort controller is shared, so the callback
\* of one invocation's timer aborts every request that is in flight.
TimeoutElapsesSharedController(i) ==
  /\ ~inv[i].elapsed
  /\ inv[i].timer = "pending" \/ inv[i].pc \in { "fetch", "body" }
  /\ inv' = [j \in Calls |->
               IF j = i THEN OnTimeout(inv[i])
               ELSE IF inv[i].timer = "pending" /\ inv[j].pc \in { "fetch", "body" }
                 THEN [inv[j] EXCEPT !.aborted = TRUE]
                 ELSE inv[j]]
  /\ UNCHANGED << env, consts, reply, files, rendering >>

\* The tool's timeout elapses for an invocation that has set its timer.
TimeoutElapses(i) ==
  /\ ~inv[i].elapsed
  /\ inv[i].timer = "pending" \/ inv[i].pc \in { "fetch", "body" }
  /\ inv' = [inv EXCEPT ![i] = OnTimeout(inv[i])]
  /\ UNCHANGED << env, consts, reply, files, rendering >>

\* The pending fetch (or body read) rejects because the signal is aborted.
AbortReject(i) ==
  /\ inv[i].pc \in { "fetch", "body" }
  /\ inv[i].aborted
  /\ inv' = [inv EXCEPT ![i] = OnAbort(inv[i])]
  /\ UNCHANGED << env, consts, reply, files, rendering >>

\* The upstream's status line arrives: fetch resolves.
FetchResolve(i, resp) ==
  /\ inv[i].pc = "fetch"
  /\ ~inv[i].aborted
  /\ inv' = [inv EXCEPT ![i] = OnResponse(inv[i], resp)]
  /\ UNCHANGED << env, consts, reply, files, rendering >>

\* Transport failure: fetch rejects.
FetchReject(i) ==
  /\ inv[i].pc = "fetch"
  /\ ~inv[i].aborted
  /\ inv' = [inv EXCEPT ![i] = CatchAndRethrow(inv[i], MsgFetchFailed)]
  /\ UNCHANGED << env, consts, reply, files, rendering >>

\* The upstream's body arrives completely: response.json() settles.
BodyDeliver(i, body) ==
  /\ inv[i].pc = "body"
  /\ ~inv[i].aborted
  /\ inv' = [inv EXCEPT ![i] = OnBody(inv[i], body)]
  /\ UNCHANGED << env, consts, reply, files, rendering >>

\* The environment changes between (or during) calls.
SetKey(key) ==
  /\ env.key # key
  /\ env' = [env EXCEPT !.key = key]
  /\ UNCHANGED << inv, consts, reply, files, rendering >>

SetUrl(url) ==
  /\ env.url # url
  /\ env' = [env EXCEPT !.url = url]
  /\ UNCHANGED << inv, consts, reply, files, rendering >>

SetClerk(id) ==
  /\ env.clerk # id
  /\ env' = [env EXCEPT !.clerk = id]
  /\ UNCHANGED << inv, consts, reply, files, rendering >>

\* formatResult is applied to a tool name and a result value.
Format(tool, r) ==
  /\ rendering' = Rendered(tool, r)
  /\ UNCHANGED << env, inv, consts, reply, files >>

\* A list-tools request is answered.
ListTools ==
  /\ reply' = ListToolsReply
  /\ UNCHANGED << env, inv, consts, files, rendering >>

\* A list-resources request is answered.
ListResources ==
  /\ reply' = ListResourcesReply
  /\ UNCHANGED << env, inv, consts, files, rendering >>

\* A read-resource request for `uri` is answered, or fails.
ReadResource(uri) ==
  /\ reply' = ReadResourceReply(uri, consts)
  /\ UNCHANGED << env, inv, consts, files, rendering >>

----------------------------------------------------------------------------
\* Specifications

\* Inputs of the runs with overlapping calls.
EnvKeys == { Unset, "", "ps_live_A" }

\* The base URL and the identity value a run starts with.
EnvSettings ==
  { [url |-> Unset, clerk |-> Unset],
    [url |-> "http://localhost:3000", clerk |-> "user_1"] }

CallNames == { "dependency.explain", "dependency.alternatives", "unknown_tool" }
CallArgs  ==
  { ArgsAbsent, "{package:lodash}", "{package:lodash,ecosystem:cobol}" }

CoreResponses ==
  { r \in HttpResponses : r.statusText \in { << "OK" >>, << "Bad Request" >> } }

CoreBodies ==
  { b \in Bodies :
      \/ b.kind = "unparseable"
      \/ b.success = "true" /\ b.result = RFull
      \/ b.success = "false" /\ b.message = << "Rate limit exceeded" >> }

\* The process after its start (index.ts): the modules are loaded, which
\* fixes the constants of resources.ts, then dotenv.config() runs, then the
\* server is constructed and connected.  `launch` is the environment the
\* process is started with, `file` the variables of the .env file.
StartedIn(launch, disk) ==
  /\ consts = ModuleConstants(launch)
  /\ env = DotenvConfig(launch, disk.dotenv)
  /\ inv = [i \in Calls |-> IdleCall]
  /\ reply = NoReply
  /\ files = disk
  /\ rendering = NoRendering

\* A start in a directory whose only key file, if any, is .env.
Started(launch, file) ==
  StartedIn(launch, [patternstack |-> Unset, dotenv |-> file, rc |-> Unset])

\* No .env file, or one without these variables.
NoDotenv == [key |-> Unset, url |-> Unset, clerk |-> Unset]

Init ==
  \E k \in EnvKeys, s \in EnvSettings :
     Started([key |-> k, url |-> s.url, clerk |-> s.clerk], NoDotenv)

Next ==
  \/ \E i \in Calls, n \in CallNames : HandleCall(i, n, ArgsAbsent)
  \/ \E i \in Calls : TimeoutElapses(i)
  \/ \E i \in Calls : AbortReject(i)
  \/ \E i \in Calls, r \in CoreResponses : FetchResolve(i, r)
  \/ \E i \in Calls : FetchReject(i)
  \/ \E i \in Calls, b \in CoreBodies : BodyDeliver(i, b)
  \/ \E k \in EnvKeys : SetKey(k)

Spec == Init /\ [][Next]_vars

\* One call at a time, over every registered name, every status line and
\* every body.
AllNames == ToolNames \cup { "unknown_tool", "toString" }

NextCall ==
  \/ \E n \in AllNames, a \in CallArgs : HandleCall(1, n, a)
  \/ TimeoutElapses(1)
  \/ AbortReject(1)
  \/ \E r \in HttpResponses : FetchResolve(1, r)
  \/ FetchReject(1)
  \/ \E b \in Bodies : BodyDeliver(1, b)
  \/ \E k \in EnvKeys : SetKey(k)

SpecCall == Init /\ [][NextCall]_vars

\* Environments that change at run time: two credentials, a custom base
\* URL, an identity value that may be the empty string.
RotatedKeys == { Unset, "ps_live_A", "ps_live_B" }
EnvUrls     == { Unset, "http://localhost:3000" }
EnvIds      == { Unset, "", "user_1" }

\* One call under every environment and every arguments value.
InitRequest ==
  \E k \in RotatedKeys, u \in EnvUrls, c \in EnvIds :
     Started([key |-> k, url |-> u, clerk |-> c], NoDotenv)

NextRequest ==
  \/ \E n \in CallNames, a \in CallArgs : HandleCall(1, n, a)
  \/ TimeoutElapses(1)
  \/ AbortReject(1)
  \/ \E r \in CoreResponses : FetchResolve(1, r)
  \/ FetchReject(1)
  \/ \E b \in CoreBodies : BodyDeliver(1, b)
  \/ \E k \in RotatedKeys : SetKey(k)
  \/ \E u \in EnvUrls : SetUrl(u)
  \/ \E c \in EnvIds : SetClerk(c)

SpecRequest == InitRequest /\ [][NextRequest]_vars

\* Overlapping calls of a process that is started with one credential and
\* whose environment changes while it runs; the upstream answers every
\* request, in time.
InitEnv ==
  Started([key |-> "ps_live_A", url |-> Unset, clerk |-> Unset], NoDotenv)

NextEnv ==
  \/ \E i \in Calls : HandleCall(i, "dependency.explain", ArgsAbsent)
  \/ \E i \in Calls, r \in { x \in CoreResponses : Ok(x) } : FetchResolve(i, r)
  \/ \E i \in Calls, b \in { x \in CoreBodies : x.success = "true" } :
        BodyDeliver(i, b)
  \/ \E k \in RotatedKeys : SetKey(k)
  \/ \E u \in EnvUrls : SetUrl(u)
  \/ \E c \in { Unset, "user_1" } : SetClerk(c)

SpecEnv == InitEnv /\ [][NextEnv]_vars

\* Overlapping calls under a credential that is rotated between two values,
\* with every outcome of the upstream exchange.
InitKeys ==
  Started([key |-> "ps_live_A", url |-> Unset, clerk |-> Unset], NoDotenv)

NextKeys ==
  \/ \E i \in Calls, n \in { "dependency.explain", "unknown_tool" } : HandleCall(i, n, ArgsAbsent)
  \/ \E i \in Calls : TimeoutElapses(i)
  \/ \E i \in Calls : AbortReject(i)
  \/ \E i \in Calls, r \in CoreResponses : FetchResolve(i, r)
  \/ \E i \in Calls : FetchReject(i)
  \/ \E i \in Calls, b \in CoreBodies : BodyDeliver(i, b)
  \/ \E k \in { "ps_live_A", "ps_live_B" } : SetKey(k)

SpecKeys == InitKeys /\ [][NextKeys]_vars

\* formatResult applied to every name and every value.
NextFormat == \E tool \in AllNames, r \in FormatInputs : Format(tool, r)

SpecFormat == InitKeys /\ [][NextFormat]_vars

\* The whole server: listings, resource reads and one call-tool request, of
\* a process started with or without a credential and with or without a
\* .env file that supplies one, under an environment that changes.
LaunchKeys == { Unset, "ps_live_A", "ps_live_B" }

DotenvFiles == { NoDotenv, [key |-> "ps_live_B", url |-> Unset, clerk |-> Unset] }

ReadUris == CatalogUris \cup { "patternstack://secrets", "file:///etc/passwd" }

ServerCallNames == { "dependency.explain", "migration.plan" }

InitServer ==
  \E k \in LaunchKeys, u \in EnvUrls, f \in DotenvFiles :
     Started([key |-> k, url |-> u, clerk |-> Unset], f)

NextServer ==
  \/ ListTools
  \/ ListResources
  \/ \E u \in ReadUris : ReadResource(u)
  \/ \E n \in ServerCallNames : HandleCall(1, n, ArgsAbsent)
  \/ \E r \in { x \in CoreResponses : Ok(x) } : FetchResolve(1, r)
  \/ \E b \in { x \in CoreBodies : x.success = "true" } : BodyDeliver(1, b)
  \/ \E k \in RotatedKeys : SetKey(k)
  \/ \E u \in EnvUrls : SetUrl(u)

SpecServer == InitServer /\ [][NextServer]_vars

\* The server launched in every configuration of the credential and of the
\* base URL: the launch environment, the project's .patternstack and .env
\* files and the global ~/.patternstackrc; then one call and reads of the
\* config resource.
LaunchUrls == { Unset, "", "http://localhost:3000", "https://evil.example" }

DotenvUrls == { Unset, "https://api.patternstack.ai" }

InitConfig ==
  \E k \in { Unset, "ps_live_A" }, u \in LaunchUrls,
     p \in { Unset, "ps_live_P" }, fk \in { Unset, "ps_live_B" },
     fu \in DotenvUrls, rc \in { Unset, "ps_live_R" } :
     StartedIn([key |-> k, url |-> u, clerk |-> Unset],
               [patternstack |-> p,
                dotenv |-> [key |-> fk, url |-> fu, clerk |-> Unset],
                rc |-> rc])

NextConfig ==
  \/ ReadResource(UriConfig)
  \/ HandleCall(1, "dependency.explain", ArgsAbsent)
  \/ \E r \in { x \in CoreResponses : Ok(x) } : FetchResolve(1, r)
  \/ \E b \in { x \in CoreBodies : x.success = "true" } : BodyDeliver(1, b)

SpecConfig == InitConfig /\ [][NextConfig]_vars

----------------------------------------------------------------------------
\* Properties of the call-tool pipeline

Done(i) == inv[i].pc = "done"

\* The call failed: the name is not registered, callTool threw, or the
\* formatter threw on the value callTool returned.
Failed(c) ==
  \/ c.name \notin ToolNames
  \/ c.ret.kind = "threw"
  \/ c.ret.kind = "returned" /\ formatResult(c.name, c.ret.value).threw

\* The message of the error that made a call of a registered tool fail.
Cause(c) ==
  IF c.ret.kind = "threw" THEN c.ret.msg ELSE formatResult(c.name, c.ret.value).text

\* The upstream has answered call i completely with a status that is not ok.
HttpFailure(i) ==
  Done(i) /\ inv[i].resp.status # 0 /\ ~Ok(inv[i].resp) /\ inv[i].body.kind # "none"

\* The upstream has answered call i completely with an ok status.
HttpSuccess(i) ==
  Done(i) /\ Ok(inv[i].resp) /\ inv[i].body.kind # "none"

\* C1 as stated: every failed call-tool request, the unknown tool included,
\* ends as a normal response with isError: true; the handler never throws.
C1_EveryFailureIsAnErrorResponse ==
  \A i \in Calls :
    Done(i) /\ Failed(inv[i]) =>
      inv[i].out.kind = "response" /\ inv[i].out.isError

\* C1 amended: every failure of a call to a registered tool ends as the
\* response {text: 'Error: ' + message, isError: true} and a success as a
\* response without the flag; a call to an unregistered name makes the
\* handler throw Error('Unknown tool: <name>').
C1_FailuresOfRegisteredToolsAreErrorResponses ==
  \A i \in Calls :
    Done(i) =>
      IF inv[i].name \in ToolNames
        THEN /\ inv[i].out.kind = "response"
             /\ inv[i].out.isError = Failed(inv[i])
             /\ Failed(inv[i]) => inv[i].out.text = << "Error:" >> \o Cause(inv[i])
        ELSE /\ inv[i].out.kind = "thrown"
             /\ inv[i].out.text = << "Unknown tool:", inv[i].name >>

\* C1 witness: a registered tool's call that the upstream failed with HTTP
\* 500 has been answered with an error response.
C1_Witness ==
  \E i \in Calls :
    /\ HttpFailure(i) /\ inv[i].resp.status = 500
    /\ inv[i].name \in ToolNames
    /\ inv[i].out.isError

\* C2: a call to a name that is not a key of TOOL_CONFIG fails with
\* 'Unknown tool: <name>', and neither a fetch nor a timer is started,
\* whatever the credential.
C2_UnknownToolFailsWithoutFetch ==
  \A i \in Calls :
    inv[i].pc # "idle" /\ inv[i].name \notin ToolNames =>
      /\ Done(i)
      /\ inv[i].out.kind # "none" /\ ~(inv[i].out.kind = "response" /\ ~inv[i].out.isError)
      /\ inv[i].out.text = << "Unknown tool:", inv[i].name >>
      /\ inv[i].fetches = 0 /\ inv[i].req = NoReq /\ inv[i].timer = "none"

\* C2 witness: an unknown tool was called while a credential is configured.
C2_Witness ==
  \E i \in Calls :
    /\ Done(i) /\ inv[i].name = "unknown_tool"
    /\ Truthy(env.key)
    /\ inv[i].fetches = 0

\* C3: a call to a registered tool that starts while PATTERNSTACK_API_KEY is
\* unset or empty fails at once with the 'not set' message; no fetch is
\* issued and no timer is started.
C3_MissingCredentialFailsBeforeFetch ==
  [][\A i \in Calls :
       ( /\ inv[i].pc = "idle" /\ inv'[i].pc # "idle"
         /\ inv'[i].name \in ToolNames
         /\ env.key \in { Unset, "" } )
       => /\ inv'[i].pc = "done"
          /\ inv'[i].ret = Threw(MsgNoKey)
          /\ inv'[i].out.isError
          /\ inv'[i].fetches = 0 /\ inv'[i].req = NoReq
          /\ inv'[i].timer = "none"]_vars

\* C3 witness: a registered tool's call has failed with the 'not set'
\* message without a fetch.
C3_Witness ==
  \E i \in Calls :
    /\ Done(i) /\ inv[i].name \in ToolNames
    /\ inv[i].ret.msg = MsgNoKey
    /\ inv[i].fetches = 0 /\ inv[i].timer = "none"

\* C4: once the tool's timeout has elapsed, an invocation that is still
\* waiting for the upstream's status line or body has been aborted (so that
\* it ends with an error instead of staying suspended).
C4_ElapsedTimeoutAbortsThePendingCall ==
  \A i \in Calls :
    inv[i].elapsed /\ inv[i].pc \in { "fetch", "body" } => inv[i].aborted

\* C5: when callTool has returned or thrown, its timer is not pending.
C5_NoTimerPendingAfterCallTool ==
  \A i \in Calls : Done(i) => inv[i].timer # "pending"

\* C5 witness: a call whose fetch failed has ended, its timer cleared by the
\* catch block.
C5_Witness ==
  \E i \in Calls :
    /\ Done(i) /\ inv[i].ret = Threw(MsgFetchFailed)
    /\ inv[i].timer = "cleared"

C7_SuccessResultReachesFormatterUnchanged ==
  \A i \in Calls :
    HttpSuccess(i) /\ inv[i].body.kind = "object" /\ inv[i].body.success = "true" =>
      /\ inv[i].ret = Returned(inv[i].body.result)
      /\ inv[i].fmt =
           [called |-> TRUE, tool |-> inv[i].name, result |-> inv[i].body.result]

\* C7 witness: a successful payload with a full result object was handled.
C7_Witness ==
  \E i \in Calls :
    /\ HttpSuccess(i) /\ inv[i].body.success = "true"
    /\ inv[i].body.result = RFull
    /\ inv[i].fmt.called

\* C8 as stated: on HTTP 2xx with {success: false}, the call fails with the
\* embedded error message whenever one is present, and with 'Tool execution
\* failed' when none is.
C8_PayloadFailureCarriesEmbeddedMessage ==
  \A i \in Calls :
    HttpSuccess(i) /\ inv[i].body.kind = "object" /\ inv[i].body.success = "false" =>
      inv[i].ret =
        Threw(IF inv[i].body.error = "message"
                THEN inv[i].body.message ELSE MsgToolFailed)

\* C8 amended: the call fails with the embedded error message when that is
\* a non-empty string, and with 'Tool execution failed' when the message is
\* absent or empty.
C8_PayloadFailureCarriesNonEmptyMessage ==
  \A i \in Calls :
    HttpSuccess(i) /\ inv[i].body.kind = "object" /\ inv[i].body.success = "false" =>
      inv[i].ret =
        Threw(IF inv[i].body.error = "message" /\ inv[i].body.message # << >>
                THEN inv[i].body.message ELSE MsgToolFailed)

\* C8 witness: a {success: false} payload with a message has failed the
\* call with that message.
C8_Witness ==
  \E i \in Calls :
    /\ HttpSuccess(i) /\ inv[i].body.success = "false"
    /\ inv[i].body.message = << "Rate limit exceeded" >>
    /\ inv[i].ret.msg = << "Rate limit exceeded" >>

\* The text the upstream gave for an HTTP failure: the embedded
\* error.message, or the status text when the body is not JSON.
UpstreamText(c) ==
  IF c.body.kind = "unparseable" THEN c.resp.statusText
  ELSE IF c.body.error = "message" THEN c.body.message
  ELSE << >>

\* The 400 rewrite applies to call i.
Rewritten(i) ==
  inv[i].resp.status = 400 /\ Includes(UpstreamText(inv[i]), "x-clerk-user-id")

\* C9 as stated: on HTTP non-2xx the call fails with the body's
\* error.message when it carries one, and with the status text when the
\* body cannot be parsed or carries no message (400 rewrite apart).  Read
\* in the claim's favour: an empty message counts as none, and only
\* responses with a status text and a body other than JSON null are judged.
C9_HttpFailureMessageOrStatusText ==
  \A i \in Calls :
    ( /\ HttpFailure(i) /\ ~Rewritten(i)
      /\ inv[i].body.kind # "null"
      /\ inv[i].resp.statusText # << >> )
    => inv[i].ret =
         Threw(IF /\ inv[i].body.kind = "object"
                  /\ inv[i].body.error = "message"
                  /\ inv[i].body.message # << >>
                 THEN inv[i].body.message ELSE inv[i].resp.statusText)

\* C9 amended: on HTTP non-2xx (400 rewrite apart) the call fails with the
\* body's error.message when that is a non-empty string; with the status
\* text when the body is not JSON and the status text is non-empty; with
\* 'API error: <status code>' when the message is absent or empty or the
\* status text is empty; and with the TypeError of reading a JSON null body.
C9_HttpFailureMessageStatusTextOrCode ==
  \A i \in Calls :
    HttpFailure(i) /\ ~Rewritten(i) =>
      inv[i].ret =
        Threw(CASE inv[i].body.kind = "null" ->
                     << "Cannot read properties of null", "(reading 'error')" >>
                [] UpstreamText(inv[i]) # << >> -> UpstreamText(inv[i])
                [] OTHER -> << "API error:", ToString(inv[i].resp.status) >>)

\* C9 witness: an HTTP 500 whose body is not JSON has failed the call with
\* the status text.
C9_Witness ==
  \E i \in Calls :
    /\ HttpFailure(i) /\ inv[i].resp.status = 500
    /\ inv[i].body.kind = "unparseable"
    /\ inv[i].ret.msg = << "Internal Server Error" >>

\* C10: an HTTP 400 whose message mentions 'x-clerk-user-id' fails the call
\* with the workspace-guidance message; any other HTTP failure does not,
\* and a non-empty upstream message is passed on as it is.
C10_WorkspaceRewriteOnlyFor400WithHeader ==
  \A i \in Calls :
    HttpFailure(i) /\ inv[i].body.kind # "null" =>
      IF inv[i].resp.status = 400
         /\ Includes(UpstreamText(inv[i]), "x-clerk-user-id")
        THEN inv[i].ret = Threw(MsgWorkspace)
        ELSE /\ inv[i].ret.msg # MsgWorkspace
             /\ UpstreamText(inv[i]) # << >> =>
                  inv[i].ret = Threw(UpstreamText(inv[i]))

\* C10 witness: a 400 that mentions the header was rewritten.
C10_Witness ==
  \E i \in Calls :
    /\ HttpFailure(i) /\ inv[i].resp.status = 400
    /\ inv[i].body.message = << "Missing", "x-clerk-user-id", "header" >>
    /\ inv[i].ret = Threw(MsgWorkspace)

----------------------------------------------------------------------------
\* Properties of the upstream request and of the environment

\* The base URL a call starting now addresses.
BaseNow == IF env.url \in { Unset, "" } THEN "https://patternstack.ai" ELSE env.url

InFlight(i) == inv[i].pc \in { "fetch", "body" }

\* Call i issues its request in this step.
Issues(i) == inv[i].pc = "idle" /\ inv'[i].pc = "fetch"

----------------------------------------------------------------------------
\* Properties of the tool listing and of the resource catalog

\* The names of a list-tools reply, in order.
ListedNames == [k \in DOMAIN reply.tools |-> reply.tools[k].name]

\* C12: a list-tools reply names no hidden tool and names every other
\* registered tool exactly once (and nothing else); a call of a hidden tool
\* is never rejected as unknown, issues the one POST with the tool's own
\* timeout like any registered tool, and, when the upstream answers 2xx with
\* a success payload, ends as a normal response without isError, built from
\* the payload's result.
C12_HiddenToolsUnlistedButCallable ==
  /\ reply.request = "tools/list" =>
       /\ \A k \in DOMAIN ListedNames :
             ListedNames[k] \in ToolNames \ HIDDEN_TOOLS
       /\ \A n \in ToolNames \ HIDDEN_TOOLS :
             Cardinality({ k \in DOMAIN ListedNames : ListedNames[k] = n }) = 1
  /\ \A i \in Calls :
       inv[i].name \in HIDDEN_TOOLS =>
         /\ inv[i].out.kind # "thrown"
         /\ InFlight(i) =>
              /\ inv[i].fetches = 1
              /\ inv[i].req.method = "POST"
              /\ inv[i].req.tool = inv[i].name
              /\ inv[i].delay = TOOL_CONFIG[inv[i].name].timeout
         /\ HttpSuccess(i) /\ inv[i].body.success = "true" =>
              /\ inv[i].out.kind = "response"
              /\ ~inv[i].out.isError
              /\ inv[i].fmt =
                   [called |-> TRUE, tool |-> inv[i].name,
                    result |-> inv[i].body.result]

\* The tools have been listed and a call of migration.plan has succeeded.
C12_Witness ==
  /\ reply.request = "tools/list"
  /\ Len(reply.tools) = Len(ToolOrder) - 1
  /\ \E i \in Calls :
       /\ inv[i].name = "migration.plan"
       /\ HttpSuccess(i)
       /\ inv[i].out.kind = "response"
       /\ ~inv[i].out.isError

\* The properties of the arguments objects the requests carry.
Properties(input) ==
  CASE input = "{package:lodash}" -> { << "package", "lodash" >> }
    [] input = "{package:lodash,ecosystem:cobol}" ->
         { << "package", "lodash" >>, << "ecosystem", "cobol" >> }
    [] OTHER -> { }

\* JSON Schema validation of an object against `required` and the
\* enumeration of `ecosystem`.
Validates(schema, input) ==
  /\ schema.required \subseteq { p[1] : p \in Properties(input) }
  /\ \A p \in Properties(input) :
       p[1] = "ecosystem" /\ schema.ecosystem # { } => p[2] \in schema.ecosystem

\* C13: no upstream request is ever issued for a call whose arguments
\* violate the input schema of the requested tool (a missing required field,
\* an ecosystem outside the enumeration); such a call ends as a failure.
C13_SchemaViolationsNeverReachUpstream ==
  \A i \in Calls :
    /\ inv[i].name \in ToolNames
    /\ ~Validates(INPUT_SCHEMAS[inv[i].name], InputOf(inv[i].args))
    => /\ inv[i].fetches = 0
       /\ Done(i) => Failed(inv[i])

\* C14: a call that starts uses the environment of that moment: without a
\* credential in it the call fails before any request, otherwise its
\* request carries the credential, the base URL and the identity value the
\* environment holds now, whatever the process was started with and
\* whatever earlier calls have used.
C14_CallUsesEnvironmentAtItsStart ==
  [][\A i \in Calls :
       inv[i].pc = "idle" /\ inv'[i].pc # "idle" /\ inv'[i].name \in ToolNames =>
         IF env.key \in { Unset, "" }
           THEN /\ inv'[i].pc = "done"
                /\ inv'[i].fetches = 0
                /\ inv'[i].ret = Threw(MsgNoKey)
           ELSE /\ inv'[i].pc = "fetch"
                /\ inv'[i].req.auth = << "Bearer", env.key >>
                /\ inv'[i].req.url[1] = BaseNow
                /\ inv'[i].req.clerk =
                     IF env.clerk \in { Unset, "" } THEN Unset ELSE env.clerk
  ]_vars

\* Two calls are in flight whose requests differ in the credential, the
\* base URL and the identity value, one of them with the values of the
\* process start and the other with the current ones.
C14_Witness ==
  \E i, j \in Calls :
     /\ InFlight(i) /\ InFlight(j)
     /\ inv[i].req.auth = << "Bearer", consts.API_KEY >>
     /\ inv[i].req.url[1] = consts.API_URL
     /\ inv[i].req.clerk = Unset
     /\ inv[j].req.auth = << "Bearer", env.key >>
     /\ inv[j].req.url[1] = env.url
     /\ inv[j].req.clerk = env.clerk
     /\ env.key # consts.API_KEY
     /\ env.url # Unset /\ env.url # consts.API_URL
     /\ env.clerk # Unset

\* A read of `uri` is answered in this step (with a reply other than the
\* latest one).
Reads(uri) ==
  /\ reply' # reply
  /\ reply'.request = "resources/read"
  /\ reply'.uri = uri

\* `line` is a line of the document a reply carries.
HasLine(r, line) ==
  /\ Len(r.contents) = 1
  /\ \E k \in DOMAIN r.contents[1].text : r.contents[1].text[k] = line

\* C15: every read of patternstack://config reports the configuration of
\* the moment of the read: 'Configured' exactly when the process environment
\* holds a credential now (set at launch, loaded from .env at startup, or
\* changed since), and the API URL the environment gives now.
C15_ConfigReadReflectsCurrentEnvironment ==
  [][Reads(UriConfig) =>
       /\ HasLine(reply', << "API Key:",
                             IF env.key \in { Unset, "" }
                               THEN "Not set" ELSE "Configured" >>)
       /\ HasLine(reply', << "API URL:", BaseNow >>)
  ]_vars

\* The reply is a successful read of `uri`.
ReadOf(uri) ==
  /\ reply.request = "resources/read"
  /\ reply.uri = uri
  /\ ~reply.threw
  /\ Len(reply.contents) = 1

\* The credential values of the runs.
Credentials == { k \in LaunchKeys \cup RotatedKeys : Truthy(k) }

\* C16: the text of patternstack://config holds no credential value in any
\* line; its key line is 'API Key: Configured' or 'API Key: Not set'; and
\* the document of a process that has a credential is the document of the
\* same process with any other credential.
C16_ConfigDocumentHidesTheCredential ==
  ReadOf(UriConfig) =>
    LET text == reply.contents[1].text
    IN  /\ \A n \in DOMAIN text, k \in Credentials : ~Includes(text[n], k)
        /\ \E n \in DOMAIN text :
              text[n] \in { << "API Key:", "Configured" >>,
                            << "API Key:", "Not set" >> }
        /\ \A n \in DOMAIN text :
              text[n][1] = "API Key:" => text[n][2] \in { "Configured", "Not set" }
        /\ Truthy(consts.API_KEY) =>
              \A k \in Credentials :
                 text = getConfigDoc([consts EXCEPT !.API_KEY = k])

\* The configuration has been read in a process that holds a credential,
\* under a custom base URL.
C16_Witness ==
  /\ ReadOf(UriConfig)
  /\ consts.API_KEY \in Credentials
  /\ env.key \in Credentials
  /\ consts.API_URL = "http://localhost:3000"
  /\ HasLine(reply, << "API Key:", "Configured" >>)

\* Calls c and d saw the same upstream behaviour for the same request,
\* credential apart.
SameRunButCredential(c, d) ==
  /\ c.name = d.name /\ c.args = d.args
  /\ c.fetches = d.fetches
  /\ [c.req EXCEPT !.auth = << >>] = [d.req EXCEPT !.auth = << >>]
  /\ c.resp = d.resp /\ c.body = d.body
  /\ c.aborted = d.aborted

\* The reply of a finished call reports a failure.
ReportsFailure(c) == c.out.kind = "thrown" \/ c.out.isError

\* C17: the text of a failed call holds neither the credential the call was
\* made with nor any other credential value, and two failed calls that
\* differ only in the credential they were made with have the same reply.
C17_ErrorTextIndependentOfCredential ==
  /\ \A i \in Calls :
       Done(i) /\ ReportsFailure(inv[i]) =>
         \A k \in Credentials : ~Includes(inv[i].out.text, k)
  /\ \A i, j \in Calls :
       /\ Done(i) /\ Done(j)
       /\ ReportsFailure(inv[i])
       /\ SameRunButCredential(inv[i], inv[j])
       => inv[i].out = inv[j].out

\* Two calls made with different credentials have failed on the same
\* upstream answer, an HTTP error with a message.
C17_Witness ==
  \E i, j \in Calls :
     /\ Done(i) /\ Done(j)
     /\ inv[i].req.auth = << "Bearer", "ps_live_A" >>
     /\ inv[j].req.auth = << "Bearer", "ps_live_B" >>
     /\ SameRunButCredential(inv[i], inv[j])
     /\ HttpFailure(i)
     /\ inv[i].out.isError
     /\ inv[i].body.message = << "Rate limit exceeded" >>

\* The section headings of a document: the lines '## <name>'.
SectionNames(text) ==
  SelectSeq(text, LAMBDA line : Len(line) = 2 /\ line[1] = "##")

\* C18: the text of patternstack://tools is the title followed by one
\* section per registry entry, hidden tools included, in registry order; the
\* section of an entry holds its name, its description, its weight, its
\* timeout in seconds (timeout/1000) and its minimum tier; no name is
\* missing, repeated or foreign to the registry.
C18_ToolsDocumentMirrorsTheRegistry ==
  ReadOf(UriTools) =>
    LET text  == reply.contents[1].text
        heads == SectionNames(text)
    IN  /\ Len(heads) = Len(ToolOrder)
        /\ \A k \in DOMAIN heads : heads[k] = << "##", ToolOrder[k] >>
        /\ \A n \in ToolNames :
              Cardinality({ k \in DOMAIN heads : heads[k][2] = n }) = 1
        /\ Len(text) = 1 + 6 * Len(ToolOrder)
        /\ \A k \in DOMAIN ToolOrder :
              LET at   == 1 + 6 * (k - 1)
                  conf == TOOL_CONFIG[ToolOrder[k]]
              IN  /\ text[at + 1] = << "##", ToolOrder[k] >>
                  /\ text[at + 2] = << conf.description >>
                  /\ text[at + 3] = << "- **Complexity Weight**:", ToString(conf.weight) >>
                  /\ \E secs \in 1..60 :
                        /\ secs * 1000 = conf.timeout
                        /\ text[at + 4] = << "- **Timeout**:", ToString(secs), "s" >>
                  /\ text[at + 5] = << "- **Minimum Tier**:", conf.minTier >>

\* The tool reference has been read; it has the section of the hidden tool
\* with its 30 s timeout.
C18_Witness ==
  /\ ReadOf(UriTools)
  /\ HasLine(reply, << "##", "migration.plan" >>)
  /\ HasLine(reply, << "- **Timeout**:", "30", "s" >>)
  /\ HasLine(reply, << "- **Complexity Weight**:", "5" >>)

\* C19: a read of a URI other than patternstack://overview,
\* patternstack://tools and patternstack://config ends with the error
\* 'Unknown resource: <uri>' leaving the handler, and with no contents at
\* all; a read of one of the three does not fail.
C19_UnknownUriFailsWithoutContents ==
  reply.request = "resources/read" =>
    IF reply.uri \in { "patternstack://overview", "patternstack://tools",
                       "patternstack://config" }
      THEN ~reply.threw /\ Len(reply.contents) = 1
      ELSE /\ reply.threw
           /\ reply.error = << "Unknown resource:", reply.uri >>
           /\ reply.contents = << >>

\* A read of an uncatalogued URI has failed.
C19_Witness ==
  /\ reply.request = "resources/read"
  /\ reply.uri = "patternstack://secrets"
  /\ reply.threw

\* A list-resources request or a read of a catalogued resource is answered
\* in this step.
ServesCatalog ==
  /\ reply' # reply
  /\ \/ reply'.request = "resources/list"
     \/ reply'.request = "resources/read" /\ reply'.uri \in CatalogUris

\* C20: answering a list-resources request or a read of a catalogued
\* resource issues no upstream request and touches no call, and does not
\* fail, with or without a credential; a read of patternstack://config
\* while the environment holds no credential reports 'API Key: Not set'.
C20_CatalogNeedsNoNetworkAndNoCredential ==
  [][ServesCatalog =>
       /\ inv' = inv
       /\ ~reply'.threw
       /\ reply'.request = "resources/list" => reply'.resources = RESOURCES
       /\ reply'.request = "resources/read" => Len(reply'.contents) = 1
       /\ reply'.uri = UriConfig /\ env.key \in { Unset, "" } =>
            HasLine(reply', << "API Key:", "Not set" >>)
  ]_vars

----------------------------------------------------------------------------
\* Properties of the result formatter

\* The generic rendering of a value: '# <tool> Result' and its JSON.
GenericRendering(tool, r) == << "#", tool, "Result", "json:", r >>

\* C21: for every name without a template of its own (unregistered names
\* and the registered tools that fall to the default case) and for every
\* result value, null and undefined included, formatResult does not throw
\* and its text starts with the generic rendering of the value.
C21_GenericFallbackNeverThrows ==
  rendering.applied /\ rendering.tool \notin BespokeTools =>
    /\ ~rendering.threw
    /\ Len(rendering.text) >= 5
    /\ SubSeq(rendering.text, 1, 5) =
         GenericRendering(rendering.tool, rendering.result)

\* The guidance section of the full object's _agi block, written out: one
\* line per key in key order, the array joined with ', ', the empty array
\* as nothing, the nested object as JSON, the scalar and null as they print.
GuidanceOfAgiBlock ==
  << "---", "## AGI Guidance",
     "- **", "safe", "**:", "false",
     "- **", "reasons", "**:", "deprecated", ", ", "cve",
     "- **", "context", "**:", "{", "depth", ":", "1", "}",
     "- **", "tags", "**:",
     "- **", "next", "**:", "null" >>

\* How often `token` occurs in `text`.
Occurrences(text, token) ==
  Cardinality({ k \in DOMAIN text : text[k] = token })

----------------------------------------------------------------------------
\* Properties relating the registry, the schemas and the documents

\* C23: INPUT_SCHEMAS and TOOL_CONFIG have the same keys, each schema key
\* is written once, and every entry of a list-tools reply carries a defined
\* inputSchema, which is the schema filed under the entry's name.
C23_SchemaKeysAreRegistryKeys ==
  /\ DOMAIN INPUT_SCHEMAS = DOMAIN TOOL_CONFIG
  /\ Cardinality(SchemaNames) = Len(SchemaOrder)
  /\ \A n \in ToolNames \cup HIDDEN_TOOLS : SchemaOf(n) # UndefinedSchema
  /\ reply.request = "tools/list" =>
       \A k \in DOMAIN reply.tools :
          /\ reply.tools[k].inputSchema # UndefinedSchema
          /\ reply.tools[k].inputSchema.type = "object"
          /\ reply.tools[k].name \in DOMAIN INPUT_SCHEMAS
          /\ reply.tools[k].inputSchema = INPUT_SCHEMAS[reply.tools[k].name]

\* A list-tools reply with all ten advertised entries has been produced.
C23_Witness ==
  /\ reply.request = "tools/list"
  /\ Len(reply.tools) = Len(ToolOrder) - Cardinality(HIDDEN_TOOLS)
  /\ \E k \in DOMAIN reply.tools : reply.tools[k].name = "signals.evaluate"

----------------------------------------------------------------------------
\* Properties of overlapping invocations

\* What an invocation's outcome may depend on: its tool and input, the
\* request built from the environment at its start, what the upstream
\* delivered, and whether its own deadline passed first.
OwnInputs(c) ==
  << c.name, c.args, c.req, c.resp, c.body, c.aborted >>

\* C24: with several invocations in flight, a step changes the record of at
\* most one of them; a signal becomes aborted only in the step in which the
\* same invocation's pending timer fires; a timer changes only in a step of
\* its own invocation; and two finished invocations with the same tool,
\* input, request, upstream delivery and deadline history have the same
\* outcome, whatever the other invocations did in between.
C24_InvocationsAreIndependent ==
  /\ [][ \A i \in Calls :
          /\ inv'[i] # inv[i] => \A j \in Calls \ { i } : inv'[j] = inv[j]
          /\ inv'[i].aborted /\ ~inv[i].aborted =>
               inv[i].timer = "pending" /\ inv'[i].timer = "fired"
          /\ inv[i].aborted => inv'[i].aborted
          /\ inv[i].pc = "done" => inv'[i] = inv[i] ]_vars
  /\ [](\A i, j \in Calls :
          /\ inv[i].aborted => inv[i].timer = "fired" /\ inv[i].elapsed
          /\ inv[i].pc = "done" /\ inv[j].pc = "done"
               /\ OwnInputs(inv[i]) = OwnInputs(inv[j]) =>
                 inv[i].ret = inv[j].ret /\ inv[i].out = inv[j].out)

\* Two invocations are in flight at once: the deadline of the first has
\* fired and aborted it, while the second has had its timer cleared by an
\* upstream answer and is not aborted.
C24_Witness ==
  /\ inv[1].pc = "fetch" /\ inv[1].timer = "fired" /\ inv[1].aborted
  /\ inv[2].pc = "body" /\ inv[2].timer = "cleared" /\ ~inv[2].aborted

----------------------------------------------------------------------------
\* Properties of the configuration

\* Call 1 has issued its upstream request.
Requested == inv[1].req # NoReq

\* C25: the base URL is PATTERNSTACK_API_URL when the process environment
\* holds a non-empty value for it and 'https://patternstack.ai' otherwise,
\* both in the endpoint of a tool call's request and in the 'API URL' line
\* of a read of patternstack://config.
C25_BaseUrlFromEnvironmentOrDefault ==
  /\ Requested => inv[1].req.url = << BaseNow, "/api/mcp/tools/call" >>
  /\ ReadOf(UriConfig) => HasLine(reply, << "API URL:", BaseNow >>)

\* The hosts the adapter may connect to.
AllowedHosts == { "patternstack.ai", "api.patternstack.ai", "localhost" }

\* The host of a base URL: what stands between the scheme and the port.
HostOf(url) ==
  CASE url = "https://patternstack.ai"     -> "patternstack.ai"
    [] url = "https://api.patternstack.ai" -> "api.patternstack.ai"
    [] url = "http://localhost:3000"       -> "localhost"
    [] url = "https://evil.example"        -> "evil.example"

\* C26: in every configuration, a request that carries the bearer
\* credential goes to patternstack.ai, api.patternstack.ai or localhost.
C26_CredentialOnlySentToAllowedHosts ==
  Requested /\ Len(inv[1].req.auth) = 2 =>
    HostOf(inv[1].req.url[1]) \in AllowedHosts

\* The first credential found in the order: launch environment (which the
\* module constants captured), .patternstack, .env, ~/.patternstackrc.
FirstOf(sources) ==
  IF \E k \in DOMAIN sources : Truthy(sources[k])
    THEN sources[CHOOSE k \in DOMAIN sources :
                   /\ Truthy(sources[k])
                   /\ \A j \in 1..(k - 1) : ~Truthy(sources[j])]
    ELSE Unset

Discovered ==
  FirstOf(<< consts.API_KEY, files.patternstack, files.dotenv.key, files.rc >>)

\* C27: a tool call authenticates with the first credential found in the
\* order environment variable, .patternstack, .env, ~/.patternstackrc, and
\* fails as 'not set' only when none of the four provides one.
C27_CredentialDiscoveryOrder ==
  inv[1].pc # "idle" =>
    IF Truthy(Discovered)
      THEN Requested /\ inv[1].req.auth = << "Bearer", Discovered >>
      ELSE inv[1].ret = Threw(MsgNoKey)

----------------------------------------------------------------------------
\* Properties of the call-tool reply

\* The reply of call 1 is a response without the error flag.
RepliedWithoutError ==
  Done(1) /\ inv[1].out.kind = "response" /\ ~inv[1].out.isError

\* What a response without the error flag requires: a registered name, a
\* credential in the request, one POST answered 2xx, a JSON object payload
\* with a truthy `success`, and formatResult returning the reply's text.
NonErrorRequirements(c) ==
  /\ IsKnownTool(c.name)
  /\ c.req # NoReq /\ Truthy(c.req.auth[2])
  /\ c.fetches = 1
  /\ Ok(c.resp)
  /\ c.body.kind = "object" /\ c.body.success = "true"
  /\ c.fmt = [called |-> TRUE, tool |-> c.name, result |-> c.body.result]
  /\ ~formatResult(c.name, c.body.result).threw
  /\ c.out.text = formatResult(c.name, c.body.result).text

\* Call 1 got a 2xx answer whose JSON object payload has no `success`.
OkWithoutSuccessFlag ==
  /\ Done(1) /\ Ok(inv[1].resp)
  /\ inv[1].body.kind = "object" /\ inv[1].body.success = "absent"

\* formatResult threw on the value callTool returned for call 1.
FormatterThrew ==
  /\ Done(1) /\ inv[1].ret.kind = "returned"
  /\ formatResult(inv[1].name, inv[1].ret.value).threw

\* A formatter exception is answered 'Error: <exception message>', flagged.
FormatterExceptionReply ==
  FormatterThrew =>
    inv[1].out =
      [kind |-> "response", isError |-> TRUE,
       text |-> << "Error:" >> \o formatResult(inv[1].name, inv[1].ret.value).text]

\* C28 as stated: a response without the error flag needs a registered
\* name, a credential, one POST answered 2xx, a truthy `success` and a
\* formatter that returned; a 2xx payload lacking `success` fails with
\* 'Tool execution failed'; a formatter exception yields the flagged
\* response 'Error: <exception message>'.
C28_NonErrorOnlyOnFullSuccess ==
  /\ RepliedWithoutError => NonErrorRequirements(inv[1])
  /\ OkWithoutSuccessFlag => inv[1].out = ErrorResponse(<< "Tool execution failed" >>)
  /\ FormatterExceptionReply

\* C28, amended: as above, but a 2xx payload lacking `success` fails with
\* the payload's error.message when that is a non-empty string, and with
\* 'Tool execution failed' only otherwise.
C28_NonErrorOnlyOnFullSuccessOrEmbeddedMessage ==
  /\ RepliedWithoutError => NonErrorRequirements(inv[1])
  /\ OkWithoutSuccessFlag =>
       /\ inv[1].out.kind = "response" /\ inv[1].out.isError
       /\ inv[1].out.text =
            << "Error:" >> \o
              (IF inv[1].body.error = "message" /\ inv[1].body.message # << >>
                 THEN inv[1].body.message
                 ELSE << "Tool execution failed" >>)
  /\ FormatterExceptionReply

\* The upstream answered 2xx with a JSON object that has no `success` but
\* an error.message: the call is answered with that message, flagged.
C28_Witness ==
  /\ OkWithoutSuccessFlag
  /\ inv[1].body.error = "message"
  /\ inv[1].body.message # << >>
  /\ inv[1].out = ErrorResponse(inv[1].body.message)

----------------------------------------------------------------------------
\* Properties relating the catalog, the reads and the overview

\* The mimeType the catalog lists for `uri`.
ListedMimeType(uri) ==
  RESOURCES[CHOOSE k \in DOMAIN RESOURCES : RESOURCES[k].uri = uri].mimeType

\* C29: getResource handles every URI of the catalog, and a read of a
\* catalog URI succeeds with one content entry for that URI whose mimeType
\* is the one the catalog lists for it.
C29_ReadMimeTypeIsListedMimeType ==
  /\ \A k \in DOMAIN RESOURCES : ~getResource(RESOURCES[k].uri, consts).threw
  /\ reply.request = "resources/read" /\ reply.uri \in CatalogUris =>
       /\ ~reply.threw
       /\ Len(reply.contents) = 1
       /\ reply.contents[1].uri = reply.uri
       /\ reply.contents[1].mimeType = ListedMimeType(reply.uri)

\* The rows of the tier matrix in a document: the four-column lines below
\* the column heads.
MatrixRows(text) ==
  { k \in DOMAIN text : Len(text[k]) = 4 /\ text[k][1] # "Tool" }

\* C30: in every read of patternstack://overview the tier matrix has
\* exactly one row per TOOL_CONFIG name and no other row, and a row's Free
\* column shows the tool as available (anything but '-') exactly when the
\* registry's minTier of the tool is 'free'; every read of
\* patternstack://tools prints that same minTier for the tool.
C30_TierMatrixAgreesWithRegistry ==
  /\ ReadOf(UriOverview) =>
       LET text == reply.contents[1].text
       IN  /\ \A n \in DOMAIN TOOL_CONFIG :
                Cardinality({ k \in MatrixRows(text) : text[k][1] = n }) = 1
           /\ \A k \in MatrixRows(text) :
                /\ text[k][1] \in DOMAIN TOOL_CONFIG
                /\ text[k][2] # "-" <=> TOOL_CONFIG[text[k][1]].minTier = "free"
  /\ ReadOf(UriTools) =>
       LET text == reply.contents[1].text
       IN  \A k \in DOMAIN text :
             text[k][1] = "##" =>
               text[k + 4] = << "- **Minimum Tier**:", TOOL_CONFIG[text[k][2]].minTier >>
====
